---------------------------- MODULE Spec2Model ----------------------------
(***************************************************************************)
(* A model of the TradeDangerous profit calculator (src/tradecalc.py):     *)
(* the load solvers (fastFit and bruteForceFit), the public entry point    *)
(* getBestTrade, the hop scorer and the best-per-destination expansion of  *)
(* getBestHops, and the Route record with its ordering.                    *)
(*                                                                         *)
(* Numbers.  Credits, gains, units and light seconds are integers.  The    *)
(* two places where the code leaves the integers are modelled by exact     *)
(* rational arithmetic over a fixed denominator: the safety margin is a    *)
(* whole percentage (marginPct / 100) and a score is carried as a          *)
(* numerator over ScoreDen.  Floating point rounding is not modelled.      *)
(***************************************************************************)
EXTENDS Integers, Sequences, FiniteSets, TLC

VARIABLES
    tdenv,        \* the TradeEnv options read by TradeCalc (self.tdenv)
    items,        \* src.tradingWith[dst]: the offers handed to the solver
    fitCredits,   \* the 'credits' argument: <<>> is None, <<c>> is c
    called,       \* which entry point has run: "none" before the call
    result,       \* what the call produced: [status, load]
    scoreArgs,    \* two candidate hops to score: gains and destinations
    scores,       \* their hop scores: <<>> before scoring
    sortIn,       \* a list of routes to sort
    sortOut,      \* the sorted list: <<>> before sorting
    tdb,          \* the trade database: stations, links, offers
    routes,       \* the current generation of routes
    hopsDone,     \* the number of getBestHops calls made so far
    lastCall      \* the last getBestHops call: <<>> before the first

fitVars   == <<items, fitCredits, called, result>>
scoreVars == <<scoreArgs, scores>>
sortVars  == <<sortIn, sortOut>>
hopVars   == <<tdb, routes, hopsDone, lastCall>>

vars == <<tdenv, fitVars, scoreVars, sortVars, hopVars>>

----------------------------------------------------------------------------
(* Bounds of the model. *)

MaxItems   == 2     \* offers in one src -> dst list
MaxCost    == 2     \* largest per-unit cost
MaxGain    == 3     \* largest per-unit gain
MaxStock   == 1     \* largest known stock (-1 is unknown)
MaxCredits == 4     \* largest budget
MaxCap     == 3     \* largest cargo capacity and unit limit
MaxLsSteps == 80    \* destinations lie at 0, 50, .. 50 * MaxLsSteps ls
MaxHopGain == 2     \* largest gain of a scored trade
MaxRoutes  == 3     \* routes in a list to sort
MaxScore   == 2     \* largest score of a route to sort
MaxJumps   == 2     \* longest jumps list of a route to sort
MaxHops    == 2     \* getBestHops calls in one search
MaxAgeDays == 1     \* largest maxAge, in days
MaxLoss    == 1     \* largest per-unit loss of an offer

(* Program constants. *)

RecoveryUnits == 0   \* 'units = 0': speculative recovery is disabled

----------------------------------------------------------------------------
(* Small helpers. *)

Min(a, b) == IF a <= b THEN a ELSE b

Max(a, b) == IF a >= b THEN a ELSE b

----------------------------------------------------------------------------
(* TradeLoad and emptyLoad. *)

TradeLoad(loadItems, gainCr, costCr, units) ==
    [items |-> loadItems, gainCr |-> gainCr, costCr |-> costCr, units |-> units]

emptyLoad == TradeLoad(<<>>, 0, 0, 0)

\* TradeLoad.__bool__
LoadBool(load) == load.units > 0

----------------------------------------------------------------------------
(* fastFit. *)

\* the stock adjustment of _fitCombos: only reached when 0 < stock < maxQty
SpeculativeRecovery(item) ==
    IF item.stockLevel > 1
    THEN \* interval = (30 / level) * 60, floor(srcAge / interval)
         RecoveryUnits * ((item.srcAge * item.stockLevel) \div 1800)
    ELSE 0

\* ItemMaxQty with the capacity left out of the minimum
ItemMaxQty_NoCap(item, maxUnits, cr, cap) ==
    LET maxQty == Min(maxUnits, cr \div item.costCr)
    IN  IF item.stock < maxQty /\ item.stock > 0
        THEN Min(maxQty, item.stock + SpeculativeRecovery(item))
        ELSE maxQty

ItemMaxQty(item, maxUnits, cr, cap) ==
    LET maxQty == Min(maxUnits, Min(cap, cr \div item.costCr))
    IN  IF item.stock < maxQty /\ item.stock > 0
        THEN Min(maxQty, item.stock + SpeculativeRecovery(item))
        ELSE maxQty

\* The inner 'for subLoad in _fitCombos(...)' loop: the loads it yields, and
\* the value bestGainCr has when it ends.
RECURSIVE AcceptSubLoads(_, _, _, _)
AcceptSubLoads(subLoads, bestGainCr, partial, acc) ==
    IF subLoads = <<>>
    THEN [yielded |-> acc, bestGainCr |-> bestGainCr]
    ELSE LET subLoad == Head(subLoads)
         IN  IF subLoad.gainCr > 0 /\ subLoad.gainCr >= bestGainCr
             THEN AcceptSubLoads(Tail(subLoads), subLoad.gainCr, partial,
                      Append(acc, TradeLoad(subLoad.items \o partial.items,
                                            subLoad.gainCr + partial.gainCr,
                                            subLoad.costCr + partial.costCr,
                                            subLoad.units + partial.units)))
             ELSE AcceptSubLoads(Tail(subLoads), bestGainCr, partial, acc)

\* The generator _fitCombos(offset, cr, cap): the sequence of loads it yields,
\* in order.  offset is 1-based here.
RECURSIVE FitCombos(_, _, _, _, _)
FitCombos(offers, maxUnits, offset, cr, cap) ==
    IF offset > Len(offers)
    THEN <<>>
    ELSE LET item   == offers[offset]
             maxQty == ItemMaxQty(item, maxUnits, cr, cap)
             partial == TradeLoad(<<[item |-> item, qty |-> maxQty]>>,
                                  maxQty * item.gainCr,
                                  maxQty * item.costCr,
                                  maxQty)
             crLeft  == cr - partial.costCr
             capLeft == cap - maxQty
             inner  == IF crLeft > 0 /\ capLeft > 0
                       THEN AcceptSubLoads(
                                FitCombos(offers, maxUnits, offset + 1, crLeft, capLeft),
                                -1, partial, <<>>)
                       ELSE [yielded |-> <<>>, bestGainCr |-> -1]
             here   == IF maxQty > 0
                       THEN IF inner.bestGainCr < 0
                            THEN Append(inner.yielded, partial)
                            ELSE inner.yielded
                       ELSE <<>>
         IN  here \o FitCombos(offers, maxUnits, offset + 1, cr, cap)

\* the test of the selection loop of fastFit
BetterLoad(res, bestLoad) ==
    \/ ~LoadBool(bestLoad)
    \/ res.gainCr > bestLoad.gainCr
    \/ /\ res.gainCr = bestLoad.gainCr
       /\ \/ res.units < bestLoad.units
          \/ res.units = bestLoad.units /\ res.costCr < bestLoad.costCr

RECURSIVE SelectBest(_, _)
SelectBest(loads, bestLoad) ==
    IF loads = <<>>
    THEN bestLoad
    ELSE SelectBest(Tail(loads),
                    IF BetterLoad(Head(loads), bestLoad) THEN Head(loads) ELSE bestLoad)

fastFit(offers, credits, capacity, maxUnits) ==
    SelectBest(FitCombos(offers, maxUnits, 1, credits, capacity), emptyLoad)

----------------------------------------------------------------------------
(* bruteForceFit.  Its stock adjustment is the same code as fastFit's, so  *)
(* ItemMaxQty serves both.                                                 *)

\* the 'continue' tests of the loop: the combination does not replace bestLoad
BruteKeeps(comb, bestLoad) ==
    \/ comb.gainCr < bestLoad.gainCr
    \/ /\ comb.gainCr = bestLoad.gainCr
       /\ \/ comb.units > bestLoad.units
          \/ comb.units = bestLoad.units /\ comb.costCr >= bestLoad.costCr

\* 'for qty in range(maxQty)': n passes are left; every pass builds the load
\* of maxQty units, whatever qty is
RECURSIVE BruteQtyLoop(_, _, _)
BruteQtyLoop(n, comb, bestLoad) ==
    IF n <= 0
    THEN bestLoad
    ELSE BruteQtyLoop(n - 1, comb,
                      IF BruteKeeps(comb, bestLoad) THEN bestLoad ELSE comb)

\* _fitCombos(offset, cr, cap) of bruteForceFit; offset is 1-based here
RECURSIVE BruteCombos(_, _, _, _, _)
BruteCombos(offers, maxUnits, offset, cr, cap) ==
    IF offset > Len(offers)
    THEN emptyLoad
    ELSE LET bestLoad == BruteCombos(offers, maxUnits, offset + 1, cr, cap)
             item     == offers[offset]
             maxQty   == ItemMaxQty(item, maxUnits, cr, cap)
             load     == TradeLoad(<<[item |-> item, qty |-> maxQty]>>,
                                   item.gainCr * maxQty,
                                   item.costCr * maxQty,
                                   maxQty)
             subLoad  == BruteCombos(offers, maxUnits, offset + 1,
                                     cr - load.costCr, cap - load.units)
             comb     == TradeLoad(load.items \o subLoad.items,
                                   load.gainCr + subLoad.gainCr,
                                   load.costCr + subLoad.costCr,
                                   load.units + subLoad.units)
         IN  IF maxQty > 0
             THEN BruteQtyLoop(maxQty, comb, bestLoad)
             ELSE bestLoad

bruteForceFit(offers, credits, capacity, maxUnits) ==
    BruteCombos(offers, maxUnits, 1, credits, capacity)

----------------------------------------------------------------------------
(* getBestTrade. *)

Returned(load) == [status |-> "returned", load |-> load]

Raised(what)   == [status |-> what, load |-> emptyLoad]

\* min(items, key=lambda item: item.costCr): the first offer of least cost
RECURSIVE CheapestFrom(_, _, _)
CheapestFrom(offers, i, best) ==
    IF i > Len(offers)
    THEN best
    ELSE CheapestFrom(offers, i + 1,
                      IF offers[i].costCr < best.costCr THEN offers[i] ELSE best)

Cheapest(offers) == CheapestFrom(offers, 2, offers[1])

\* [ item for item in items if not item.item in avoidItems ]
AvoidFilter(offers, avoidItems) ==
    SelectSeq(offers, LAMBDA item : item.item \notin avoidItems)

\* the maxAge filter; maxAge is in days and 0 switches it off
AgeFilter(offers, maxAge) ==
    IF maxAge # 0
    THEN LET cutoffSeconds == maxAge * (24 * 60 * 60)
         IN  SelectSeq(offers,
                 LAMBDA item : Max(item.srcAge, item.dstAge) < cutoffSeconds)
    ELSE offers

\* "Remove any items with less gain than the cheapest item, or that are
\* outside our budget."
PreFilter(offers, credits) ==
    IF offers # <<>>
    THEN LET firstItem == Cheapest(offers)
         IN  SelectSeq(offers,
                 LAMBDA item : /\ item.costCr <= credits
                               /\ \/ item.gainCr > firstItem.gainCr
                                  \/ item = firstItem)
    ELSE offers

\* the short-circuit test on the filtered list
ShortCircuit(offers, credits, capacity, maxUnits) ==
    /\ maxUnits >= capacity
    /\ offers[1].costCr * capacity <= credits
    /\ \/ offers[1].stock < 0
       \/ offers[1].stock >= maxUnits

\* what getBestTrade hands to the fit function
FilteredItems(env, offers, credits) ==
    PreFilter(AgeFilter(AvoidFilter(offers, env.avoidItems), env.maxAge), credits)

\* 'if credits is None: credits = tdenv.credits - insurance'
TradeCredits(env, creditsArg) ==
    IF creditsArg = <<>> THEN env.credits - env.insurance ELSE creditsArg[1]

\* 'maxUnits = getattr(tdenv, 'limit') or capacity'
TradeMaxUnits(env) == IF env.limit # 0 THEN env.limit ELSE env.capacity

\* getBestTrade from the filters on: the empty load, the short-circuit load
\* or the load of the fit function
BestLoad(env, offers, credits) ==
    LET capacity == env.capacity
        maxUnits == TradeMaxUnits(env)
        filtered == FilteredItems(env, offers, credits)
    IN  IF filtered = <<>> THEN emptyLoad
        ELSE IF ShortCircuit(filtered, credits, capacity, maxUnits)
             THEN TradeLoad(<<[item |-> filtered[1], qty |-> capacity]>>,
                            capacity * filtered[1].gainCr,
                            capacity * filtered[1].costCr,
                            capacity)
        ELSE fastFit(filtered, credits, capacity, maxUnits)

\* getBestTrade with a budget check added next to the capacity check
getBestTrade_CreditsChecked(env, hasLink, offers, creditsArg) ==
    IF ~hasLink THEN Raised("no link")
    ELSE IF env.capacity = 0 THEN Raised("zero capacity")
    ELSE IF TradeCredits(env, creditsArg) < 0 THEN Raised("negative credits")
    ELSE Returned(BestLoad(env, offers, TradeCredits(env, creditsArg)))

getBestTrade(env, hasLink, offers, creditsArg) ==
    IF ~hasLink THEN Raised("no link")
    ELSE IF env.capacity = 0 THEN Raised("zero capacity")
    ELSE Returned(BestLoad(env, offers, TradeCredits(env, creditsArg)))

----------------------------------------------------------------------------
(* The hop score of getBestHops.  A score is the numerator of a fraction   *)
(* over ScoreDen: 3 from the penalty curve, 10 * 10 from the square of     *)
(* cruiseKls (kept in tenths) and 100 from the percentage.                 *)

ScoreDen == 3 * 10 * 10 * 100

\* int(dstStation.lsFromStar / 100): ten times cruiseKls
CruiseTenths(lsFromStar) == lsFromStar \div 100

\* penalty = ((cruiseKls ** 2) - cruiseKls) / 3 * lsPenalty, over ScoreDen
Penalty(lsFromStar, lsPenaltyPct) ==
    LET k == CruiseTenths(lsFromStar)
    IN  (k * k - 10 * k) * lsPenaltyPct

\* HopScore with the penalty curve running the other way
HopScore_Inverted(gainCr, lsFromStar, lsPenaltyPct) ==
    IF lsPenaltyPct # 0
    THEN gainCr * (ScoreDen + Penalty(lsFromStar, lsPenaltyPct))
    ELSE gainCr * ScoreDen

\* HopScore with the sign of the multiplier slipped: score *= (penalty - 1)
HopScore_Negated(gainCr, lsFromStar, lsPenaltyPct) ==
    IF lsPenaltyPct # 0
    THEN gainCr * (Penalty(lsFromStar, lsPenaltyPct) - ScoreDen)
    ELSE gainCr * ScoreDen

\* score = trade.gainCr; if lsPenalty: score *= (1 - penalty)
HopScore(gainCr, lsFromStar, lsPenaltyPct) ==
    IF lsPenaltyPct # 0
    THEN gainCr * (ScoreDen - Penalty(lsFromStar, lsPenaltyPct))
    ELSE gainCr * ScoreDen

----------------------------------------------------------------------------
(* Route. *)

Route(stations, hops, startCr, gainCr, jumps, score) ==
    [route |-> stations, hops |-> hops, startCr |-> startCr,
     gainCr |-> gainCr, jumps |-> jumps, score |-> score]

\* RoutePlus that takes the gain of the new hop for the gain of the route
RoutePlus_HopGainOnly(self, dst, hop, jumps, score) ==
    Route(Append(self.route, dst),
          Append(self.hops, hop),
          self.startCr,
          hop.gainCr,
          Append(self.jumps, jumps),
          self.score + score)

\* Route.plus: hop[1] is the gainCr of the load
RoutePlus(self, dst, hop, jumps, score) ==
    Route(Append(self.route, dst),
          Append(self.hops, hop),
          self.startCr,
          self.gainCr + hop.gainCr,
          Append(self.jumps, jumps),
          self.score + score)

\* Route.__lt__
RouteLt(self, rhs) ==
    \/ rhs.score < self.score
    \/ rhs.score = self.score /\ Len(rhs.jumps) < Len(self.jumps)

\* Route.__eq__
RouteEq(self, rhs) ==
    self.score = rhs.score /\ Len(self.jumps) = Len(rhs.jumps)

\* sorted(routes): a stable insertion sort that compares with __lt__ alone,
\* as list.sort does
RECURSIVE InsertRoute(_, _)
InsertRoute(sorted, r) ==
    IF sorted = <<>> THEN <<r>>
    ELSE IF RouteLt(r, sorted[Len(sorted)])
         THEN Append(InsertRoute(SubSeq(sorted, 1, Len(sorted) - 1), r),
                     sorted[Len(sorted)])
         ELSE Append(sorted, r)

RECURSIVE SortRoutes(_, _)
SortRoutes(rs, sorted) ==
    IF rs = <<>> THEN sorted
    ELSE SortRoutes(Tail(rs), InsertRoute(sorted, Head(rs)))

----------------------------------------------------------------------------
(* The trade database as getBestHops reads it: stations "A" and "B" of     *)
(* system "S1" and station "C" of system "S2".  A station's ID is its      *)
(* name.  tradingWith[src, dst] = <<>> stands for 'dst not in              *)
(* src.tradingWith'.                                                       *)

Stations == {"A", "B", "C"}

StationOrder == <<"A", "B", "C">>

SystemOf(station) == IF station = "C" THEN "S2" ELSE "S1"

\* tdb.getDestinations(src, ..., trading=True): the stations src trades
\* with, each with its system, distance and jump path
GetDestinations(db, src) ==
    LET linked == SelectSeq(StationOrder,
                      LAMBDA dst : dst # src /\ db.tradingWith[src, dst] # <<>>)
    IN  [i \in 1..Len(linked) |->
            [system  |-> SystemOf(linked[i]),
             station |-> linked[i],
             distLy  |-> db.distLy[src, linked[i]],
             via     |-> IF SystemOf(src) = SystemOf(linked[i])
                         THEN <<SystemOf(src)>>
                         ELSE <<SystemOf(src), SystemOf(linked[i])>>]]

----------------------------------------------------------------------------
(* getBestHops. *)

\* int(x) of the quotient n / d, d > 0: truncation towards zero
IntDiv(n, d) == IF n >= 0 THEN n \div d ELSE -((-n) \div d)

\* StartCr with the insurance left in the budget
StartCr_NoInsurance(env, route) ==
    env.credits + IntDiv(route.gainCr * (100 - env.marginPct), 100)

\* credits = tdenv.credits - insurance;
\* startCr = credits + int(route.gainCr * safetyMargin)
StartCr(env, route) ==
    (env.credits - env.insurance)
        + IntDiv(route.gainCr * (100 - env.marginPct), 100)

\* RestrictSkip with an empty set taken as a restriction
RestrictSkip_EmptyRestricts(restrictTo, dest) ==
    /\ restrictTo # <<>>
    /\ dest.station \notin restrictTo[1]
    /\ dest.system \notin restrictTo[1]

\* 'if restrictTo: if not dstStation in restrictTo and not dstSystem in
\* restrictTo: continue'; restrictTo is <<>> for None, <<set>> for a set
RestrictSkip(restrictTo, dest) ==
    /\ restrictTo # <<>>
    /\ restrictTo[1] # {}
    /\ dest.station \notin restrictTo[1]
    /\ dest.system \notin restrictTo[1]

\* UniqueSkip looking at the route's last station only
UniqueSkip_LastOnly(env, route, dstStation) ==
    env.unique /\ dstStation = route.route[Len(route.route)]

\* 'if unique and dstStation in route.route: continue'
UniqueSkip(env, route, dstStation) ==
    env.unique /\ \E i \in 1..Len(route.route) : route.route[i] = dstStation

\* KeepsBest comparing the distances alone
KeepsBest_LyOnly(old, route, score, dstLy) ==
    old.ly <= dstLy

\* the two 'continue' tests against the candidate already in bestToDest
KeepsBest(old, route, score, dstLy) ==
    LET bestTradeScore == old.route.score + old.score
        newTradeScore  == route.score + score
    IN  \/ bestTradeScore > newTradeScore
        \/ bestTradeScore = newTradeScore /\ old.ly <= dstLy

\* the position of dstID in bestToDest, 0 when it has no candidate yet
RECURSIVE FindDest(_, _, _)
FindDest(best, dstID, i) ==
    IF i > Len(best) THEN 0
    ELSE IF best[i].dstID = dstID THEN i
    ELSE FindDest(best, dstID, i + 1)

\* One pass of the inner loop, for one destination of one route.  acc is
\* [status, entries]: bestToDest in insertion order, and whether getBestTrade
\* has raised.
ConsiderDest(env, db, route, dest, restrictTo, acc) ==
    LET srcStation == route.route[Len(route.route)]
        dstStation == dest.station
    IN  IF acc.status # "ok" THEN acc
        ELSE IF RestrictSkip(restrictTo, dest) THEN acc
        ELSE IF UniqueSkip(env, route, dstStation) THEN acc
        ELSE
        LET got == getBestTrade(env, db.tradingWith[srcStation, dstStation] # <<>>,
                                db.tradingWith[srcStation, dstStation],
                                <<StartCr(env, route)>>)
            trade == got.load
            score == HopScore(trade.gainCr, db.lsFromStar[dstStation], env.lsPenalty)
            entry == [dstID |-> dstStation, dstStation |-> dstStation,
                      route |-> route, trade |-> trade, jumps |-> dest.via,
                      ly |-> dest.distLy, score |-> score]
            at    == FindDest(acc.entries, dstStation, 1)
        IN  IF got.status # "returned" THEN [acc EXCEPT !.status = got.status]
            ELSE IF ~LoadBool(trade) THEN acc
            ELSE IF at = 0
                 THEN [acc EXCEPT !.entries = Append(acc.entries, entry)]
            ELSE IF KeepsBest(acc.entries[at], route, score, dest.distLy) THEN acc
            ELSE [acc EXCEPT !.entries[at] = entry]

RECURSIVE ConsiderDests(_, _, _, _, _, _)
ConsiderDests(env, db, route, dests, restrictTo, acc) ==
    IF dests = <<>> THEN acc
    ELSE ConsiderDests(env, db, route, Tail(dests), restrictTo,
                       ConsiderDest(env, db, route, Head(dests), restrictTo, acc))

\* the 'for route in routes' loop
RECURSIVE ConsiderRoutes(_, _, _, _, _)
ConsiderRoutes(env, db, rs, restrictTo, acc) ==
    IF rs = <<>> THEN acc
    ELSE LET route == Head(rs)
             dests == GetDestinations(db, route.route[Len(route.route)])
         IN  ConsiderRoutes(env, db, Tail(rs), restrictTo,
                            ConsiderDests(env, db, route, dests, restrictTo, acc))

\* bestToDest when the loops end
BestToDest(env, db, rs, restrictTo) ==
    ConsiderRoutes(env, db, rs, restrictTo, [status |-> "ok", entries |-> <<>>])

\* the result list: route.plus(dst, trade, jumps, score) of every entry
ExtendedRoutes(entries) ==
    [i \in 1..Len(entries) |->
        RoutePlus(entries[i].route, entries[i].dstStation, entries[i].trade,
                  entries[i].jumps, entries[i].score)]

----------------------------------------------------------------------------
(* The options of a run that calls the solver alone. *)

DefaultEnv ==
    [credits |-> MaxCredits, insurance |-> 1, capacity |-> 1, limit |-> 0,
     maxAge |-> 0, avoidItems |-> {}, marginPct |-> 0, unique |-> FALSE,
     lsPenalty |-> 0]

\* tradingWith lists are sorted by gain descending, ties by cost ascending
GainSorted(offers) ==
    \A i \in 1..(Len(offers) - 1) :
        \/ offers[i].gainCr > offers[i + 1].gainCr
        \/ /\ offers[i].gainCr = offers[i + 1].gainCr
           /\ offers[i].costCr <= offers[i + 1].costCr

\* an offer of commodity 'id'
Offer(id, core, level, srcAge, dstAge) ==
    [item |-> id, costCr |-> core.costCr, gainCr |-> core.gainCr,
     stock |-> core.stock, stockLevel |-> level,
     srcAge |-> srcAge, dstAge |-> dstAge]

\* The offer lists of at most maxItems offers over the given costs and
\* gains.  Every offer of a list is a different commodity, at most one of
\* them has a known stock (0..maxStock), and the stock levels 2, 3, 1, ..
\* follow the commodities.
OfferListsUpTo(maxItems, costs, gains, maxStock) ==
    LET Core == [costCr : costs, gainCr : gains]
    IN  UNION { { [i \in 1..n |->
                      Offer(i, [costCr |-> c[i].costCr, gainCr |-> c[i].gainCr,
                                stock  |-> IF i = known THEN stock ELSE -1],
                            (i % 3) + 1, 0, 0)] :
                    c \in { d \in [1..n -> Core] : GainSorted(d) },
                    known \in 0..n, stock \in 0..maxStock }
                : n \in 0..maxItems }

OfferLists(costs, gains, maxStock) ==
    OfferListsUpTo(MaxItems, costs, gains, maxStock)

\* the parts of the state a specification does not use
FitIdle ==
    /\ items = <<>>
    /\ fitCredits = <<>>
    /\ called = "none"
    /\ result = Raised("not called")

ScoreIdle ==
    /\ scoreArgs = [lsPenalty |-> 0, gainCr |-> <<0, 0>>, lsFromStar |-> <<0, 0>>]
    /\ scores = <<>>

SortIdle == sortIn = <<>> /\ sortOut = <<>>

HopIdle ==
    /\ tdb = [lsFromStar |-> <<>>, distLy |-> <<>>, tradingWith |-> <<>>]
    /\ routes = <<>>
    /\ hopsDone = 0
    /\ lastCall = <<>>

InitFit ==
    /\ ScoreIdle /\ SortIdle /\ HopIdle
    /\ items \in OfferLists(1..MaxCost, 1..MaxGain, MaxStock)
    /\ \E capacity \in 0..MaxCap, limit \in 0..MaxCap :
           tdenv = [DefaultEnv EXCEPT !.capacity = capacity, !.limit = limit]
    /\ fitCredits \in {<<>>} \cup { <<c>> : c \in -1..MaxCredits }
    /\ called = "none"
    /\ result = Raised("not called")

\* the unit limit and the budget the call works with
FitMaxUnits == TradeMaxUnits(tdenv)

FitCredits == TradeCredits(tdenv, fitCredits)

CallGetBestTrade ==
    /\ called = "none"
    /\ called' = "getBestTrade"
    /\ result' = getBestTrade(tdenv, TRUE, items, fitCredits)
    /\ UNCHANGED <<tdenv, items, fitCredits, scoreVars, sortVars, hopVars>>

CallFastFit ==
    /\ called = "none"
    /\ fitCredits # <<>>
    /\ called' = "fastFit"
    /\ result' = Returned(fastFit(items, fitCredits[1], tdenv.capacity, FitMaxUnits))
    /\ UNCHANGED <<tdenv, items, fitCredits, scoreVars, sortVars, hopVars>>

CallBruteForceFit ==
    /\ called = "none"
    /\ fitCredits # <<>>
    /\ called' = "bruteForceFit"
    /\ result' = Returned(bruteForceFit(items, fitCredits[1], tdenv.capacity,
                                        FitMaxUnits))
    /\ UNCHANGED <<tdenv, items, fitCredits, scoreVars, sortVars, hopVars>>

NextFit == CallGetBestTrade \/ CallFastFit \/ CallBruteForceFit

SpecFit == InitFit /\ [][NextFit]_vars

----------------------------------------------------------------------------
(* Calls on offers of signed gain: a sale may lose up to MaxLoss a unit.  *)
(* The lists are one offer longer than those of SpecFit.                  *)

InitSigned ==
    /\ ScoreIdle /\ SortIdle /\ HopIdle
    /\ items \in OfferListsUpTo(MaxItems + 1, 1..MaxCost, (-MaxLoss)..MaxGain,
                                MaxStock)
    /\ \E capacity \in 1..MaxCap, limit \in 0..MaxCap :
           tdenv = [DefaultEnv EXCEPT !.capacity = capacity, !.limit = limit]
    /\ fitCredits \in {<<>>} \cup { <<c>> : c \in 0..MaxCredits }
    /\ called = "none"
    /\ result = Raised("not called")

SpecSigned == InitSigned /\ [][NextFit]_vars

----------------------------------------------------------------------------
(* Calls on two offers of one price where the stock of the better one is   *)
(* known: scenario S3 of the specification (cost 100, gains 80 and 10,     *)
(* stock 2, credits 1000, capacity 10) and its neighbours.                 *)

StockLists ==
    { << Offer(1, [costCr |-> c, gainCr |-> 80, stock |-> stock], level, 0, 0),
         Offer(2, [costCr |-> c, gainCr |-> g, stock |-> -1], 1, 0, 0) >> :
        c \in {1, 100}, g \in {10, 79}, stock \in 0..(MaxStock + 2),
        level \in 1..3 }

\* the budget buys exactly a full hold
InitStock ==
    /\ ScoreIdle /\ SortIdle /\ HopIdle
    /\ items \in StockLists
    /\ \E capacity \in {MaxCap, 10} :
          /\ tdenv = [DefaultEnv EXCEPT !.capacity = capacity]
          /\ fitCredits = <<items[1].costCr * capacity>>
    /\ called = "none"
    /\ result = Raised("not called")

SpecStock == InitStock /\ [][NextFit]_vars

----------------------------------------------------------------------------
(* Calls on offers of every age, with the maxAge option off or on. *)

\* 'cutoffSeconds = tdenv.maxAge * (24 * 60 * 60)'
DaySeconds == 24 * 60 * 60

\* fresh data, and the ages one second around every whole number of days
AgeChoices ==
    {0} \cup { d * DaySeconds + k : d \in 1..MaxAgeDays, k \in {-1, 0, 1} }

\* The lists of at most two offers of unknown stock; the source side has any
\* age of AgeChoices, the destination side is fresh or MaxAgeDays old.
AgedLists ==
    LET Core == [costCr : 1..MaxCost, gainCr : 1..MaxGain]
        Ages == [src : AgeChoices, dst : {0, MaxAgeDays * DaySeconds}]
    IN  UNION { { [i \in 1..n |->
                      Offer(i, [costCr |-> c[i].costCr, gainCr |-> c[i].gainCr,
                                stock  |-> -1],
                            1, a[i].src, a[i].dst)] :
                    c \in { d \in [1..n -> Core] : GainSorted(d) },
                    a \in [1..n -> Ages] }
                : n \in 0..2 }

InitAge ==
    /\ ScoreIdle /\ SortIdle /\ HopIdle
    /\ items \in AgedLists
    /\ \E capacity \in {1, MaxCap}, maxAge \in 0..MaxAgeDays :
           tdenv = [DefaultEnv EXCEPT !.capacity = capacity, !.maxAge = maxAge]
    /\ fitCredits \in {<<>>, <<MaxCredits>>}
    /\ called = "none"
    /\ result = Raised("not called")

SpecAge == InitAge /\ [][NextFit]_vars

----------------------------------------------------------------------------
(* Scoring two candidate hops of one getBestHops run. *)

InitScore ==
    /\ FitIdle /\ SortIdle /\ HopIdle
    /\ tdenv = DefaultEnv
    /\ scoreArgs \in [lsPenalty  : {0, 25, 100},
                      gainCr     : (0..MaxHopGain) \X (0..MaxHopGain),
                      lsFromStar : {50 * n : n \in 0..MaxLsSteps}
                                   \X {50 * n : n \in 0..MaxLsSteps}]
    /\ scores = <<>>

ScoreHops ==
    /\ scores = <<>>
    /\ scores' = [i \in 1..2 |-> HopScore(scoreArgs.gainCr[i],
                                          scoreArgs.lsFromStar[i],
                                          scoreArgs.lsPenalty)]
    /\ UNCHANGED <<tdenv, scoreArgs, fitVars, sortVars, hopVars>>

NextScore == ScoreHops

SpecScore == InitScore /\ [][NextScore]_vars

----------------------------------------------------------------------------
(* Sorting a list of routes with the Route ordering. *)

\* a route of 'n' hops with the given score; only score and jumps are read
\* by the ordering
SortRoute(score, n) ==
    Route([i \in 1..(n + 1) |-> "A"], [i \in 1..n |-> emptyLoad], 0, 0,
          [i \in 1..n |-> <<"S1">>], score)

InitSort ==
    /\ FitIdle /\ ScoreIdle /\ HopIdle
    /\ tdenv = DefaultEnv
    /\ \E n \in 0..MaxRoutes :
           sortIn \in [1..n -> { SortRoute(sc, j) :
                                   sc \in 0..MaxScore, j \in 0..MaxJumps }]
    /\ sortOut = <<>>

Sort ==
    /\ sortIn # <<>>
    /\ sortOut = <<>>
    /\ sortOut' = SortRoutes(sortIn, <<>>)
    /\ UNCHANGED <<tdenv, sortIn, fitVars, scoreVars, hopVars>>

NextSort == Sort

SpecSort == InitSort /\ [][NextSort]_vars

----------------------------------------------------------------------------
(* Searching: successive getBestHops calls on the newest generation. *)

Off(id, costCr, gainCr, stock) ==
    Offer(id, [costCr |-> costCr, gainCr |-> gainCr, stock |-> stock], 1, 0, 0)

\* a database: C lies lsC from its star and lyAC from A, and the best offer
\* from A to B gains gAB
World(lsC, lyAC, gAB) ==
    [lsFromStar  |-> [st \in Stations |->
                        IF st = "A" THEN 0 ELSE IF st = "B" THEN 500 ELSE lsC],
     distLy      |-> [p \in Stations \X Stations |->
                        IF SystemOf(p[1]) = SystemOf(p[2]) THEN 0
                        ELSE IF "A" \in {p[1], p[2]} THEN lyAC ELSE 2],
     tradingWith |-> [p \in Stations \X Stations |->
                        CASE p = <<"A", "B">> -> <<Off(1, 2, gAB, -1), Off(2, 1, 1, -1)>>
                          [] p = <<"A", "C">> -> <<Off(3, 1, 2, 1)>>
                          [] p = <<"B", "A">> -> <<Off(1, 2, 1, -1)>>
                          [] p = <<"B", "C">> -> <<Off(2, 2, 3, -1), Off(3, 1, 1, -1)>>
                          [] p = <<"C", "A">> -> <<Off(4, 3, 2, -1)>>
                          [] OTHER -> <<>>]]

Worlds == { World(lsC, lyAC, gAB) : lsC \in {0, 4000}, lyAC \in {2, 3},
                                    gAB \in 2..MaxGain }

HopEnvs ==
    { [DefaultEnv EXCEPT !.credits = cr, !.insurance = ins, !.capacity = cap,
                         !.limit = lim, !.marginPct = m, !.unique = u,
                         !.lsPenalty = p] :
        cr \in {1, MaxCredits}, ins \in 0..2, cap \in {0, 1, MaxCap}, lim \in 0..1,
        m \in {0, 50}, u \in BOOLEAN, p \in {0, 100} }

\* the restrictTo arguments: None, the empty set, a station, a system
RestrictChoices == { <<>>, <<{}>>, <<{"C"}>>, <<{"S1"}>> }

\* the seed of a search: the origin alone, nothing gained
SeedRoute(env, origin) == Route(<<origin>>, <<>>, env.credits, 0, <<>>, 0)

Init ==
    /\ FitIdle /\ ScoreIdle /\ SortIdle
    /\ tdenv \in HopEnvs
    /\ tdb \in Worlds
    /\ \E origin \in Stations : routes = <<SeedRoute(tdenv, origin)>>
    /\ hopsDone = 0
    /\ lastCall = <<>>

GetBestHops(restrictTo) ==
    /\ hopsDone < MaxHops
    /\ LET best == BestToDest(tdenv, tdb, routes, restrictTo)
       IN  /\ lastCall' = <<[routes |-> routes, restrictTo |-> restrictTo,
                             status |-> best.status, bestToDest |-> best.entries]>>
           /\ routes' = IF best.status = "ok"
                        THEN ExtendedRoutes(best.entries)
                        ELSE routes
    /\ hopsDone' = hopsDone + 1
    /\ UNCHANGED <<tdenv, tdb, fitVars, scoreVars, sortVars>>

Next == \E restrictTo \in RestrictChoices : GetBestHops(restrictTo)

Spec == Init /\ [][Next]_vars

----------------------------------------------------------------------------
(* The last getBestHops call of a search, on any list of one or two routes *)
(* that earlier calls may have left: two routes may end at one station.    *)

\* a one-hop route ending at 'end', with the gain and score it has so far
PoolRoute(env, end, gainCr, score) ==
    LET prev == IF end = "A" THEN "B" ELSE IF end = "B" THEN "C" ELSE "A"
    IN  Route(<<prev, end>>,
              <<TradeLoad(<<[item |-> Off(9, 1, gainCr, -1), qty |-> 1]>>,
                          gainCr, 1, 1)>>,
              env.credits, gainCr,
              <<<<SystemOf(prev), SystemOf(end)>>>>,
              score * ScoreDen)

PoolEnvs ==
    { [DefaultEnv EXCEPT !.credits = MaxCredits, !.insurance = 0,
                         !.capacity = cap, !.unique = u, !.lsPenalty = p] :
        cap \in {1, MaxCap}, u \in BOOLEAN, p \in {0, 100} }

PoolWorlds == { World(lsC, lyAC, 2) : lsC \in {0, 4000}, lyAC \in {2, 3} }

InitPool ==
    /\ FitIdle /\ ScoreIdle /\ SortIdle
    /\ tdenv \in PoolEnvs
    /\ tdb \in PoolWorlds
    /\ \E n \in 1..2 :
           routes \in [1..n -> { PoolRoute(tdenv, end, g, sc) :
                                   end \in Stations, g \in 1..2,
                                   sc \in 0..MaxScore }]
    /\ hopsDone = MaxHops - 1
    /\ lastCall = <<>>

SpecPool == InitPool /\ [][Next]_vars

----------------------------------------------------------------------------
(* Properties of the load solver and of getBestTrade. *)

RECURSIVE SumTo(_, _)
SumTo(f, n) == IF n = 0 THEN 0 ELSE f[n] + SumTo(f, n - 1)

\* every way to pick a quantity of each offer of 'items'
Assignments == [1..Len(items) -> 0..tdenv.capacity]

AssignedCost(q)  == SumTo([i \in 1..Len(items) |-> q[i] * items[i].costCr], Len(items))

AssignedGain(q)  == SumTo([i \in 1..Len(items) |-> q[i] * items[i].gainCr], Len(items))

AssignedUnits(q) == SumTo(q, Len(items))

Feasible(q) ==
    /\ AssignedCost(q) <= FitCredits
    /\ AssignedUnits(q) <= tdenv.capacity
    /\ \A i \in 1..Len(items) :
           /\ q[i] <= FitMaxUnits
           /\ items[i].stock >= 0 => q[i] <= items[i].stock

SolverReturned ==
    /\ called \in {"fastFit", "getBestTrade"}
    /\ result.status = "returned"

\* C1: for credits >= 0, capacity >= 1 and max_units in 1..capacity, the load
\* returned by fastFit and by getBestTrade has the maximum total gain among
\* all quantity assignments within the budget, the capacity, the unit limit
\* and the known stocks: no feasible mix has a strictly higher gain.
C1_LoadHasMaximumGain ==
    ( /\ SolverReturned
      /\ FitCredits >= 0
      /\ tdenv.capacity >= 1
      /\ FitMaxUnits \in 1..tdenv.capacity )
    => \A q \in Assignments :
           Feasible(q) => AssignedGain(q) <= result.load.gainCr

LoadCost(load)  == SumTo([i \in 1..Len(load.items) |->
                             load.items[i].qty * load.items[i].item.costCr],
                         Len(load.items))

LoadGain(load)  == SumTo([i \in 1..Len(load.items) |->
                             load.items[i].qty * load.items[i].item.gainCr],
                         Len(load.items))

LoadUnits(load) == SumTo([i \in 1..Len(load.items) |-> load.items[i].qty],
                         Len(load.items))

\* a load within a budget, a capacity and a unit limit, with true totals
LoadWithin(load, credits, capacity, maxUnits) ==
    /\ load.costCr <= credits
    /\ load.units <= capacity
    /\ \A i \in 1..Len(load.items) :
           0 < load.items[i].qty /\ load.items[i].qty <= maxUnits
    /\ load.costCr = LoadCost(load)
    /\ load.gainCr = LoadGain(load)
    /\ load.units = LoadUnits(load)

\* C2: for credits >= 0, capacity >= 1 and max_units >= 1, every load that
\* getBestTrade returns costs at most the credits, holds at most capacity
\* units, has 0 < qty <= max_units in every pair, and its cost, gain and
\* units are the sums over its pairs.
C2_LoadWithinLimits ==
    ( /\ called = "getBestTrade"
      /\ result.status = "returned"
      /\ FitCredits >= 0
      /\ tdenv.capacity >= 1
      /\ FitMaxUnits >= 1 )
    => LoadWithin(result.load, FitCredits, tdenv.capacity, FitMaxUnits)

\* getBestTrade returned a load of two commodities: the solver ran
C2_Witness ==
    /\ called = "getBestTrade"
    /\ result.status = "returned"
    /\ FitCredits >= 0
    /\ Len(result.load.items) = 2
    /\ result.load.units = tdenv.capacity
    /\ result.load.costCr = FitCredits

\* C3 as stated: getBestTrade with credits < 0 fails and returns no load.
C3_NegativeCreditsFatal ==
    (called = "getBestTrade" /\ FitCredits < 0) => result.status # "returned"

\* C3 amended: getBestTrade with credits < 0 and a nonzero capacity returns
\* the empty load; it does not fail.
C3_NegativeCreditsEmptyLoad ==
    (called = "getBestTrade" /\ FitCredits < 0 /\ tdenv.capacity # 0)
    => result = Returned(emptyLoad)

\* getBestTrade was called with a negative budget on a list of offers
C3_Witness ==
    /\ called = "getBestTrade"
    /\ FitCredits < 0
    /\ tdenv.capacity # 0
    /\ items # <<>>
    /\ result = Returned(emptyLoad)

----------------------------------------------------------------------------
(* Properties of the hop score. *)

Scored == scores # <<>>

SameGain == scoreArgs.gainCr[1] = scoreArgs.gainCr[2]

SameLs == scoreArgs.lsFromStar[1] = scoreArgs.lsFromStar[2]

\* C6 as stated: for a fixed gain >= 0 and a fixed ls_penalty >= 0 the hop
\* score is nonincreasing in ls_from_star: ls1 <= ls2 gives score1 >= score2.
C6_ScoreNonincreasingInLs ==
    (Scored /\ SameGain /\ scoreArgs.lsFromStar[1] <= scoreArgs.lsFromStar[2])
    => scores[1] >= scores[2]

\* C6 amended: the same from 500 ls on, where the penalty curve has its
\* minimum: 500 <= ls1 <= ls2 gives score1 >= score2.
C6_ScoreNonincreasingFrom500 ==
    ( /\ Scored
      /\ SameGain
      /\ 500 <= scoreArgs.lsFromStar[1]
      /\ scoreArgs.lsFromStar[1] <= scoreArgs.lsFromStar[2] )
    => scores[1] >= scores[2]

\* two stations beyond 500 ls, the farther one scored strictly lower
C6_Witness ==
    /\ Scored
    /\ SameGain
    /\ scoreArgs.lsPenalty # 0
    /\ 500 <= scoreArgs.lsFromStar[1]
    /\ scoreArgs.lsFromStar[1] < scoreArgs.lsFromStar[2]
    /\ scores[1] > scores[2]

\* C7 as stated: for a fixed ls_from_star and a fixed ls_penalty >= 0, also
\* where the penalty exceeds 1, the hop score is nondecreasing in gain_cr.
C7_ScoreNondecreasingInGain ==
    (Scored /\ SameLs /\ scoreArgs.gainCr[1] <= scoreArgs.gainCr[2])
    => scores[1] <= scores[2]

\* C7 amended: the same where the penalty is at most 1.
C7_ScoreNondecreasingInGainPenaltyUpTo1 ==
    ( /\ Scored
      /\ SameLs
      /\ Penalty(scoreArgs.lsFromStar[1], scoreArgs.lsPenalty) <= ScoreDen
      /\ scoreArgs.gainCr[1] <= scoreArgs.gainCr[2] )
    => scores[1] <= scores[2]

\* a penalised destination, penalty below 1, the larger gain scored higher
C7_Witness ==
    /\ Scored
    /\ SameLs
    /\ scoreArgs.lsPenalty # 0
    /\ Penalty(scoreArgs.lsFromStar[1], scoreArgs.lsPenalty) > 0
    /\ Penalty(scoreArgs.lsFromStar[1], scoreArgs.lsPenalty) < ScoreDen
    /\ scoreArgs.gainCr[1] < scoreArgs.gainCr[2]
    /\ scores[1] < scores[2]

----------------------------------------------------------------------------
(* Properties of the Route ordering. *)

\* C8: in a list sorted with the Route ordering a route of higher score
\* precedes every route of lower score, among routes of equal score the one
\* with the shorter jumps list comes first, and two routes compare equal
\* only when score and jump count are both equal.
C8_SortedByScoreThenFewerJumps ==
    sortOut # <<>> =>
        /\ \A i, j \in 1..Len(sortOut) :
               i < j =>
                   /\ sortOut[i].score >= sortOut[j].score
                   /\ sortOut[i].score = sortOut[j].score
                          => Len(sortOut[i].jumps) <= Len(sortOut[j].jumps)
        /\ \A i, j \in 1..Len(sortOut) :
               RouteEq(sortOut[i], sortOut[j])
                   => /\ sortOut[i].score = sortOut[j].score
                      /\ Len(sortOut[i].jumps) = Len(sortOut[j].jumps)

----------------------------------------------------------------------------
(* Properties of getBestHops. *)

HopsReturned == lastCall # <<>> /\ lastCall[1].status = "ok"

LastStation(route) == route.route[Len(route.route)]

\* C4 as stated: getBestHops with restrictTo the empty set returns the empty
\* list for every route list, and with an empty route list it returns the
\* empty list.
C4_EmptyRestrictionAdmitsNothing ==
    ( /\ HopsReturned
      /\ \/ lastCall[1].restrictTo = <<{}>>
         \/ lastCall[1].routes = <<>> )
    => routes = <<>>

\* C4 amended: with an empty route list getBestHops returns the empty list;
\* with restrictTo the empty set it returns what it returns with no
\* restriction at all.
C4_EmptyRestrictionRestrictsNothing ==
    HopsReturned =>
        /\ lastCall[1].routes = <<>> => routes = <<>>
        /\ lastCall[1].restrictTo = <<{}>> =>
               routes = ExtendedRoutes(
                            BestToDest(tdenv, tdb, lastCall[1].routes, <<>>).entries)

\* a call with the empty restriction set that returned routes
C4_Witness ==
    /\ HopsReturned
    /\ lastCall[1].restrictTo = <<{}>>
    /\ lastCall[1].routes # <<>>
    /\ routes # <<>>

\* The candidates of a call: every (input route, destination) that passes
\* the restriction and the unique test and has a non-empty trade, with the
\* total score and the distance it competes with.
Candidates(env, db, rs, restrictTo) ==
    { [dst   |-> dest.station,
       total |-> rs[i].score
                 + HopScore(BestLoad(env, db.tradingWith[LastStation(rs[i]), dest.station],
                                     StartCr(env, rs[i])).gainCr,
                            db.lsFromStar[dest.station], env.lsPenalty),
       ly    |-> dest.distLy] :
        <<i, dest>> \in
            { c \in UNION { {i} \X { GetDestinations(db, LastStation(rs[i]))[j] :
                                      j \in 1..Len(GetDestinations(db, LastStation(rs[i]))) } :
                            i \in 1..Len(rs) } :
                /\ ~RestrictSkip(restrictTo, c[2])
                /\ ~UniqueSkip(env, rs[c[1]], c[2].station)
                /\ LoadBool(BestLoad(env, db.tradingWith[LastStation(rs[c[1]]), c[2].station],
                                     StartCr(env, rs[c[1]]))) } }

LastCandidates ==
    Candidates(tdenv, tdb, lastCall[1].routes, lastCall[1].restrictTo)

\* C5: the output of getBestHops holds exactly one route for every
\* destination that had a candidate, and that route wins its destination:
\* no candidate to the same destination had a strictly higher route.score +
\* hop score, and none of equal total had a strictly shorter ly.
C5_OneWinnerPerDestination ==
    HopsReturned =>
        /\ Len(routes) = Len(lastCall[1].bestToDest)
        /\ \A c \in LastCandidates :
               Cardinality({ i \in 1..Len(routes) : LastStation(routes[i]) = c.dst }) = 1
        /\ \A i \in 1..Len(routes) :
               /\ \E c \in LastCandidates : c.dst = LastStation(routes[i])
               /\ lastCall[1].bestToDest[i].dstID = LastStation(routes[i])
               /\ \A c \in LastCandidates :
                      c.dst = LastStation(routes[i]) =>
                          /\ c.total <= routes[i].score
                          /\ c.total = routes[i].score
                                 => c.ly >= lastCall[1].bestToDest[i].ly

\* two candidates for one destination tie on the total and differ in ly
C5_TieSeen ==
    /\ HopsReturned
    /\ \E c, d \in LastCandidates :
           c.dst = d.dst /\ c.total = d.total /\ c.ly < d.ly

\* two input routes end at one station and one output route leaves it for C
C5_Witness ==
    /\ HopsReturned
    /\ Len(lastCall[1].routes) = 2
    /\ LastStation(lastCall[1].routes[1]) = LastStation(lastCall[1].routes[2])
    /\ lastCall[1].routes[1].score < lastCall[1].routes[2].score
    /\ Cardinality({ c \in LastCandidates : c.dst = "C" }) = 2
    /\ Cardinality({ i \in 1..Len(routes) : LastStation(routes[i]) = "C" }) = 1

\* C9: with the unique option set, no route of any generation holds a
\* station twice, the origin included.
C9_UniqueRoutesRevisitNothing ==
    tdenv.unique =>
        \A r \in 1..Len(routes) :
            \A i, j \in 1..Len(routes[r].route) :
                routes[r].route[i] = routes[r].route[j] => i = j

\* a unique search two hops on, with a route of three stations
C9_Witness ==
    /\ tdenv.unique
    /\ hopsDone = 2
    /\ \E r \in 1..Len(routes) : Len(routes[r].route) = 3

\* the gain of the hops of 'route' before hop i
GainBefore(route, i) == SumTo([k \in 1..(i - 1) |-> route.hops[k].gainCr], i - 1)

\* floor(G * (1 - margin))
KeptGain(env, gainCr) == (gainCr * (100 - env.marginPct)) \div 100

----------------------------------------------------------------------------
(* Properties of the filters of getBestTrade. *)

\* the older of the two ages of an offer
OfferAge(item) == Max(item.srcAge, item.dstAge)

\* the offers of 'items' that are at most maxAge days old
NotOlderThanMaxAge ==
    SelectSeq(items, LAMBDA item : OfferAge(item) <= tdenv.maxAge * DaySeconds)

\* C11: with maxAge = d days on, getBestTrade drops exactly the offers whose
\* older age exceeds d * 86400 seconds: no such offer is in the returned
\* load, and the load is the one getBestTrade finds, with the option off, on
\* the offers that are at most d * 86400 seconds old.
C11_DropsExactlyOlderOffers ==
    (called = "getBestTrade" /\ result.status = "returned" /\ tdenv.maxAge # 0)
    => /\ \A i \in 1..Len(result.load.items) :
              OfferAge(result.load.items[i].item) <= tdenv.maxAge * DaySeconds
       /\ result.load = BestLoad([tdenv EXCEPT !.maxAge = 0],
                                 NotOlderThanMaxAge, FitCredits)

----------------------------------------------------------------------------
(* Properties of the solvers on offers of signed gain. *)

\* C12: the load that fastFit and getBestTrade return has gainCr >= 0,
\* whatever the signs of the offers' gains: a loss is never returned.
C12_GainNeverNegative ==
    SolverReturned => result.load.gainCr >= 0

\* the (offer, qty) pairs of a load, as a set
Pairs(load) == { load.items[i] : i \in 1..Len(load.items) }

\* what fastFit returns on the arguments of the call
FastFitLoad == fastFit(items, fitCredits[1], tdenv.capacity, FitMaxUnits)

\* C13: for credits >= 0, capacity >= 1 and max_units in 1..capacity, fastFit
\* and bruteForceFit return the same best load on a gain-sorted list: the
\* same gainCr, units and costCr and the same set of (offer, qty) pairs.
C13_FastFitEqualsBruteForceFit ==
    ( /\ called = "bruteForceFit"
      /\ FitCredits >= 0
      /\ tdenv.capacity >= 1
      /\ FitMaxUnits \in 1..tdenv.capacity )
    => /\ result.load.gainCr = FastFitLoad.gainCr
       /\ result.load.units = FastFitLoad.units
       /\ result.load.costCr = FastFitLoad.costCr
       /\ Pairs(result.load) = Pairs(FastFitLoad)

----------------------------------------------------------------------------
(* Properties of the short-circuit and of the pre-filter of getBestTrade. *)

\* the offers the call's filters leave
FitFiltered == FilteredItems(tdenv, items, FitCredits)

\* getBestTrade returned by its short-circuit
ShortCircuited ==
    /\ called = "getBestTrade"
    /\ result.status = "returned"
    /\ FitFiltered # <<>>
    /\ ShortCircuit(FitFiltered, FitCredits, tdenv.capacity, FitMaxUnits)

\* C14: whenever the short-circuit guard holds on the filtered, gain-sorted
\* offers, the load getBestTrade returns (capacity units of the first
\* offer) is the load fastFit returns on the same offers, credits, capacity
\* and unit limit: the same gainCr, units, costCr and items.
C14_ShortCircuitEqualsFastFit ==
    ShortCircuited
    => result.load = fastFit(FitFiltered, FitCredits, tdenv.capacity, FitMaxUnits)

\* the better offer of a two-offer list is capped by its known stock
FirstCappedByStock ==
    /\ Len(items) = 2
    /\ items[1].gainCr > items[2].gainCr
    /\ items[1].stock > 0
    /\ items[1].stock < Min(FitMaxUnits,
                            Min(tdenv.capacity, FitCredits \div items[1].costCr))

\* C15: when the highest-gain offer is capped by its known stock,
\* getBestTrade loads stock units of it and fills the rest of the hold from
\* the lower-gain offer of the same price that the budget still covers (for
\* cost 100, gains 80 and 10, stock 2, credits 1000, capacity 10: 2 and 8
\* units, gain 240, cost 1000); the pre-filter has not removed that offer.
C15_StockCapFilledFromLowerGain ==
    ( /\ called = "getBestTrade"
      /\ FirstCappedByStock
      /\ items[2].costCr = items[1].costCr
      /\ items[2].stock < 0
      /\ FitCredits = items[1].costCr * tdenv.capacity
      /\ FitMaxUnits = tdenv.capacity )
    => LET stock == items[1].stock
           rest  == tdenv.capacity - stock
       IN  /\ result.status = "returned"
           /\ Pairs(result.load) = { [item |-> items[1], qty |-> stock],
                                     [item |-> items[2], qty |-> rest] }
           /\ result.load.gainCr = stock * items[1].gainCr + rest * items[2].gainCr
           /\ result.load.costCr = FitCredits
           /\ result.load.units = tdenv.capacity

----------------------------------------------------------------------------
(* Properties of the stock cap. *)

\* one of the three entry points has returned a load
AnyFitReturned ==
    /\ called \in {"fastFit", "bruteForceFit", "getBestTrade"}
    /\ result.status = "returned"

\* C16: with speculative recovery disabled, every (offer, qty) pair of a load
\* returned by fastFit, bruteForceFit or getBestTrade whose offer has a known
\* stock (stock >= 0) has qty <= stock; an offer of stock 0 is in no load.
C16_QtyWithinKnownStock ==
    AnyFitReturned
    => \A i \in 1..Len(result.load.items) :
           result.load.items[i].item.stock >= 0
           => result.load.items[i].qty <= result.load.items[i].item.stock

----------------------------------------------------------------------------
(* Properties of the routes of a search. *)

\* the score getBestHops gave hop i of a route
HopScoreAt(route, i) ==
    HopScore(route.hops[i].gainCr, tdb.lsFromStar[route.route[i + 1]],
             tdenv.lsPenalty)

\* 'route' is 'prev' plus one hop: Route.plus has copied what 'prev' had when
\* it was handed to getBestHops, and added the hop
ExtendsByOneHop(route, prev) ==
    LET k == Len(route.hops)
    IN  /\ k = Len(prev.hops) + 1
        /\ route.route = Append(prev.route, route.route[k + 1])
        /\ route.hops = Append(prev.hops, route.hops[k])
        /\ route.jumps = Append(prev.jumps, route.jumps[k])
        /\ route.startCr = prev.startCr
        /\ route.gainCr = prev.gainCr + route.hops[k].gainCr
        /\ route.score = prev.score + HopScoreAt(route, k)

\* C17: after k getBestHops expansions of the seed route [origin] (gain 0,
\* score 0), every route of the generation has k hops, k jump paths and
\* k + 1 stations, its gainCr is the sum of its hops' gains, its score the
\* sum of its hops' scores, every hop load is non-empty, and it is a route
\* of the generation before, unchanged, plus one hop (so it begins with the
\* origin).
C17_RoutesAreSumsOfTheirHops ==
    (hopsDone = 0 \/ HopsReturned)
    => \A n \in 1..Len(routes) :
           LET route == routes[n]
               k     == hopsDone
           IN  /\ Len(route.hops) = k
               /\ Len(route.jumps) = k
               /\ Len(route.route) = k + 1
               /\ route.gainCr = SumTo([i \in 1..k |-> route.hops[i].gainCr], k)
               /\ route.score = SumTo([i \in 1..k |-> HopScoreAt(route, i)], k)
               /\ \A i \in 1..k : LoadBool(route.hops[i])
               /\ IF k = 0
                  THEN route = SeedRoute(tdenv, route.route[1])
                  ELSE \E m \in 1..Len(lastCall[1].routes) :
                           ExtendsByOneHop(route, lastCall[1].routes[m])

\* a route of two hops of different gains to a penalised destination, in a
\* generation of several routes
C17_Witness ==
    /\ hopsDone = 2
    /\ HopsReturned
    /\ Len(routes) >= 2
    /\ \E n \in 1..Len(routes) :
           /\ routes[n].hops[1].gainCr # routes[n].hops[2].gainCr
           /\ routes[n].score # routes[n].gainCr * ScoreDen

=============================================================================
